---------------------------- MODULE Spec2Model ----------------------------
(* A model of app.py: the whitespace normaliser, the body-text extractor,  *)
(* the upload handler and the sequential batch loop.                       *)
(*                                                                         *)
(* A Python str is a sequence of one-character strings, "" is << >>.       *)
(* URLs, error messages and HTTP status codes are atoms, written as TLA+   *)
(* strings; a status code is written as its decimal numeral, so that the   *)
(* column http_status can hold either a code or the empty string.          *)
EXTENDS Integers, Sequences, FiniteSets, TLC

VARIABLES
    \* the upload handler and the batch loop (app.py 126-175)
    pc,          \* position of the script
    loaded,      \* what read_urls_from_upload returned
    urls,        \* the list the loop iterates
    sleep_s,     \* the delay setting, in tenths of a second
    i,           \* the loop index (enumerate(urls, start=1))
    rows,        \* the result list
    status_box,  \* last text written to the status box, as <<i, N, url>>
    progress,    \* last value given to the progress bar, as <<i, N>>
    inflight,    \* number of requests sent and not yet answered
    fetches,     \* fetches[k]: how many times fetch_url ran for urls[k]
    sleeps,      \* how many times time.sleep returned
    outcomes,    \* outcomes[k]: what the network did to the request for urls[k]
    \* normalize_whitespace applied to a text, then to its own result
    nw_pc, nw_text, nw_once, nw_twice,
    \* extract_body_text applied to a parsed document
    ex_pc, ex_doc, ex_title, ex_text

bvars == <<pc, loaded, urls, sleep_s, i, rows, status_box, progress,
           inflight, fetches, sleeps, outcomes>>
nvars == <<nw_pc, nw_text, nw_once, nw_twice>>
evars == <<ex_pc, ex_doc, ex_title, ex_text>>
vars  == <<bvars, nvars, evars>>

-----------------------------------------------------------------------------
(* Strings *)

\* str.strip() with no argument removes these from both ends
Whitespace == {" ", "\t", "\n", "\r", "\f"}

RECURSIVE LStrip(_)
LStrip(s) ==
    IF s = << >> THEN << >>
    ELSE IF Head(s) \in Whitespace THEN LStrip(Tail(s)) ELSE s

RECURSIVE RStrip(_)
RStrip(s) ==
    IF s = << >> THEN << >>
    ELSE IF s[Len(s)] \in Whitespace THEN RStrip(SubSeq(s, 1, Len(s) - 1)) ELSE s

Strip(s) == RStrip(LStrip(s))

\* re.sub(r"\r\n?", "\n", text)
RECURSIVE SubCRLF(_)
SubCRLF(s) ==
    IF s = << >> THEN << >>
    ELSE IF Head(s) = "\r"
         THEN IF Len(s) >= 2 /\ s[2] = "\n"
              THEN <<"\n">> \o SubCRLF(SubSeq(s, 3, Len(s)))
              ELSE <<"\n">> \o SubCRLF(Tail(s))
         ELSE <<Head(s)>> \o SubCRLF(Tail(s))

\* the longest prefix of s made of characters of set cs (a greedy match)
RECURSIVE RunLen(_, _)
RunLen(s, cs) ==
    IF s = << >> \/ Head(s) \notin cs THEN 0 ELSE 1 + RunLen(Tail(s), cs)

\* re.sub(r"[ \t]+", " ", text)
RECURSIVE SubBlanks(_)
SubBlanks(s) ==
    IF s = << >> THEN << >>
    ELSE LET n == RunLen(s, {" ", "\t"})
         IN  IF n >= 1
             THEN <<" ">> \o SubBlanks(SubSeq(s, n + 1, Len(s)))
             ELSE <<Head(s)>> \o SubBlanks(Tail(s))

\* re.sub(r"\n{3,}", "\n\n", text)
RECURSIVE SubNewlines(_)
SubNewlines(s) ==
    IF s = << >> THEN << >>
    ELSE LET n == RunLen(s, {"\n"})
         IN  IF n >= 3
             THEN <<"\n", "\n">> \o SubNewlines(SubSeq(s, n + 1, Len(s)))
             ELSE <<Head(s)>> \o SubNewlines(Tail(s))

\* a slip in the order of the substitutions: blank lines are collapsed
\* before the line endings are unified
normalize_whitespace_misordered(text) ==
    Strip(SubBlanks(SubCRLF(SubNewlines(text))))

normalize_whitespace(text) ==
    Strip(SubNewlines(SubBlanks(SubCRLF(text))))

\* str.join over a list of strings
RECURSIVE Join(_, _)
Join(sep, parts) ==
    IF parts = << >> THEN << >>
    ELSE IF Len(parts) = 1 THEN parts[1]
    ELSE parts[1] \o sep \o Join(sep, Tail(parts))

\* the characters (or elements) of a sequence
Range(f) == {f[k] : k \in DOMAIN f}

\* all sequences over S of length at most n
RECURSIVE SeqsUpTo(_, _)
SeqsUpTo(S, n) ==
    IF n = 0 THEN {<< >>}
    ELSE LET shorter == SeqsUpTo(S, n - 1)
         IN  shorter \cup {Append(s, c) : s \in {t \in shorter : Len(t) = n - 1}, c \in S}

-----------------------------------------------------------------------------
(* The parsed document *)

\* A document as BeautifulSoup(html, "lxml") holds it: an optional <title>
\* with one string, an optional <body> with its attributes and leading
\* string, and the other elements in document order.  Element k has a tag
\* name, an id and a class attribute (<< >> when absent), one string that
\* precedes its children, and its parent (an earlier element, or 0 for the
\* body when there is one and for the document otherwise).

UpperChars == <<"A","B","C","D","E","F","G","H","I","J","K","L","M",
                "N","O","P","Q","R","S","T","U","V","W","X","Y","Z">>
LowerChars == <<"a","b","c","d","e","f","g","h","i","j","k","l","m",
                "n","o","p","q","r","s","t","u","v","w","x","y","z">>

LowerChar(c) ==
    IF \E k \in 1..Len(UpperChars) : UpperChars[k] = c
    THEN LowerChars[CHOOSE k \in 1..Len(UpperChars) : UpperChars[k] = c]
    ELSE c

Lower(s) == [k \in 1..Len(s) |-> LowerChar(s[k])]

\* pat occurs somewhere in s
Contains(s, pat) ==
    \E k \in 0..(Len(s) - Len(pat)) : SubSeq(s, k + 1, k + Len(pat)) = pat

\* re.compile(r"(p1|p2|...)", re.I).search(value)
SearchAnyIgnoreCase(pats, value) ==
    \E p \in pats : Contains(Lower(value), Lower(p))

cookie     == <<"c", "o", "o", "k", "i", "e">>
consent    == <<"c", "o", "n", "s", "e", "n", "t">>
gdpr       == <<"g", "d", "p", "r">>
newsletter == <<"n", "e", "w", "s", "l", "e", "t", "t", "e", "r">>
popup      == <<"p", "o", "p", "u", "p">>
modal      == <<"m", "o", "d", "a", "l">>
overlay    == <<"o", "v", "e", "r", "l", "a", "y">>

\* app.py 39 and 44
NonContentTags == <<"script", "style", "noscript", "svg", "canvas", "iframe">>
LayoutTags     == <<"header", "footer", "nav", "aside">>

\* app.py 49-52
junk_selectors ==
    <<[attr |-> "id",    pats |-> {cookie, consent, gdpr, newsletter, popup, modal}],
      [attr |-> "class", pats |-> {cookie, consent, gdpr, newsletter, popup, modal, overlay}]>>

Elements(doc) == 1..Len(doc.nodes)

\* j is k or lies under k
RECURSIVE InSubtree(_, _, _)
InSubtree(doc, j, k) ==
    IF j = k THEN TRUE
    ELSE IF j = 0 THEN FALSE
    ELSE InSubtree(doc, doc.nodes[j].parent, k)

Subtree(doc, k) == {j \in Elements(doc) : InSubtree(doc, j, k)}

\* t.decompose() for every t of found: the elements of their subtrees leave
\* the tree (decomposing an element twice changes nothing)
Decompose(doc, removed, found) ==
    removed \cup UNION {Subtree(doc, k) : k \in found}

\* body.find_all(tag_name): the elements still under body with that name
FindAllByTag(doc, removed, tag_name) ==
    {k \in Elements(doc) \ removed : doc.nodes[k].tag = tag_name}

\* a tag loop that stops after the first tag name of its list
RECURSIVE RemoveTags_first_only(_, _, _)
RemoveTags_first_only(doc, removed, names) ==
    IF names = << >> THEN removed
    ELSE Decompose(doc, removed, FindAllByTag(doc, removed, Head(names)))

\* for tag_name in names: for t in body.find_all(tag_name): t.decompose()
RECURSIVE RemoveTags(_, _, _)
RemoveTags(doc, removed, names) ==
    IF names = << >> THEN removed
    ELSE RemoveTags(doc,
                    Decompose(doc, removed, FindAllByTag(doc, removed, Head(names))),
                    Tail(names))

AttrOf(node, attr) == IF attr = "id" THEN node.id ELSE node.class

\* body.find_all(attrs={attr: pattern}): an absent attribute never matches
FindAllByAttr(doc, removed, sel) ==
    {k \in Elements(doc) \ removed :
        /\ AttrOf(doc.nodes[k], sel.attr) # << >>
        /\ SearchAnyIgnoreCase(sel.pats, AttrOf(doc.nodes[k], sel.attr))}

\* for attr, pattern in selectors: for t in find_all(...):
\*     if t.name != "body": t.decompose()
RECURSIVE RemoveJunk(_, _, _)
RemoveJunk(doc, removed, selectors) ==
    IF selectors = << >> THEN removed
    ELSE LET found == {k \in FindAllByAttr(doc, removed, Head(selectors)) :
                          doc.nodes[k].tag # "body"}
         IN  RemoveJunk(doc, Decompose(doc, removed, found), Tail(selectors))

\* the elements gone from the tree when the text is taken (app.py 38-57)
Removed(doc) ==
    RemoveJunk(doc,
               RemoveTags(doc, RemoveTags(doc, {}, NonContentTags), LayoutTags),
               junk_selectors)

\* the strings of the elements kept, in document order
RECURSIVE StringsFrom(_, _, _)
StringsFrom(doc, removed, k) ==
    IF k > Len(doc.nodes) THEN << >>
    ELSE (IF k \in removed THEN << >> ELSE <<doc.nodes[k].text>>)
         \o StringsFrom(doc, removed, k + 1)

\* get_text(sep, strip=True): every string stripped, the empty ones dropped,
\* the rest joined by sep
RECURSIVE StripAndDrop(_)
StripAndDrop(strings) ==
    IF strings = << >> THEN << >>
    ELSE (IF Strip(Head(strings)) = << >> THEN << >> ELSE <<Strip(Head(strings))>>)
         \o StripAndDrop(Tail(strings))

get_text(sep, strings) == Join(sep, StripAndDrop(strings))

\* the strings under body, and the strings of the whole document
BodyStrings(doc, removed) == <<doc.body_text>> \o StringsFrom(doc, removed, 1)
DocStrings(doc) ==
    (IF doc.hasTitle THEN <<doc.title>> ELSE << >>)
    \o (IF doc.hasBody THEN <<doc.body_text>> ELSE << >>)
    \o StringsFrom(doc, {}, 1)

\* app.py 29-31
TitleOf(doc) ==
    IF doc.hasTitle /\ get_text(<< >>, <<doc.title>>) # << >>
    THEN get_text(<<" ">>, <<doc.title>>)
    ELSE << >>

\* an extractor without the fallback: with no body it returns no text
extract_body_text_no_fallback(doc) ==
    IF ~doc.hasBody
    THEN <<TitleOf(doc), << >> >>
    ELSE <<TitleOf(doc),
           normalize_whitespace(get_text(<<"\n">>, BodyStrings(doc, Removed(doc))))>>

\* app.py 22-62; the result is <<title, text>>
extract_body_text(doc) ==
    IF ~doc.hasBody
    THEN <<TitleOf(doc), normalize_whitespace(get_text(<<"\n">>, DocStrings(doc)))>>
    ELSE <<TitleOf(doc),
           normalize_whitespace(get_text(<<"\n">>, BodyStrings(doc, Removed(doc))))>>

-----------------------------------------------------------------------------
(* The inputs explored *)

MaxLen   == 5    \* longest text given to normalize_whitespace
MaxNodes == 3    \* most elements of a document besides title and body
MaxUrls  == 3    \* longest list read from the upload

NwAlphabet == {" ", "\t", "\r", "\n", "\f", "a"}
Texts == SeqsUpTo(NwAlphabet, MaxLen)

\* the string of element k: one letter that names the element, in the white
\* space a parser leaves around it
Tokens == <<"A", "B", "C", "D", "E", "F">>
NodeText(k) == <<" ", Tokens[k], "\n">>
TitleToken == "T"
BodyToken  == "Z"

AttrValues ==
    { <<"m", "a", "i", "n">>, <<"c", "o", "o", "k", "i", "e", "-", "b", "a", "n", "n", "e", "r">>, <<"C", "o", "n", "s", "e", "n", "t">>, <<"G", "D", "P", "R">>, <<"n", "e", "w", "s", "l", "e", "t", "t", "e", "r">>,
      <<"P", "o", "p", "U", "p">>, <<"m", "o", "d", "a", "l">>, <<"o", "v", "e", "r", "l", "a", "y">>, <<"p", "a", "g", "e", "-", "O", "v", "e", "r", "l", "a", "y">> }

AllTags == Range(NonContentTags) \cup Range(LayoutTags) \cup {"p", "div"}

Plain(tag) == [tag |-> tag, id |-> << >>, class |-> << >>]

\* every tag without attributes, and a div with every id or class value
Catalogue ==
    {Plain(t) : t \in AllTags}
    \cup {[tag |-> "div", id |-> v, class |-> << >>] : v \in AttrValues}
    \cup {[tag |-> "div", id |-> << >>, class |-> v] : v \in AttrValues}
    \cup {[tag |-> "nav", id |-> <<"m", "a", "i", "n">>, class |-> <<"o", "v", "e", "r", "l", "a", "y">>]}

\* the elements around the one drawn from the catalogue
ContextKinds == {Plain("p"), Plain("nav")}

\* the parent vectors of n elements listed in document order
Shapes(n) ==
    {p \in [1..n -> 0..(n - 1)] :
        \A k \in 1..n :
            /\ p[k] < k
            /\ k > 1 => \/ p[k] = k - 1
                        \/ LET up[j \in 0..(k - 1)] ==
                                   IF j = 0 THEN {0} ELSE {p[j]} \cup up[p[j]]
                           IN  p[k] \in up[k - 1]}

Frames ==
    { [hasTitle |-> FALSE, title |-> << >>, hasBody |-> FALSE,
       body_id |-> << >>, body_class |-> << >>, body_text |-> << >>],
      [hasTitle |-> TRUE, title |-> <<" ", TitleToken, " ">>, hasBody |-> FALSE,
       body_id |-> << >>, body_class |-> << >>, body_text |-> << >>],
      [hasTitle |-> TRUE, title |-> <<" ", TitleToken, " ">>, hasBody |-> TRUE,
       body_id |-> << >>, body_class |-> << >>, body_text |-> <<BodyToken, " ">>],
      [hasTitle |-> TRUE, title |-> <<" ", "\n">>, hasBody |-> TRUE,
       body_id |-> <<"c", "o", "o", "k", "i", "e", "-", "b", "a", "n", "n", "e", "r">>, body_class |-> << >>, body_text |-> <<BodyToken, " ">>],
      [hasTitle |-> FALSE, title |-> << >>, hasBody |-> TRUE,
       body_id |-> << >>, body_class |-> <<"m", "o", "d", "a", "l">>, body_text |-> <<BodyToken, " ">>] }

MkDoc(frame, shape, kinds) ==
    [hasTitle |-> frame.hasTitle, title |-> frame.title, hasBody |-> frame.hasBody,
     body_id |-> frame.body_id, body_class |-> frame.body_class,
     body_text |-> frame.body_text,
     nodes |-> [k \in 1..Len(shape) |->
                   [tag |-> kinds[k].tag, id |-> kinds[k].id, class |-> kinds[k].class,
                    text |-> NodeText(k), parent |-> shape[k]]]]

\* a document of at most n elements: one of any kind of the catalogue, the
\* others of the context kinds
IsDocUpTo(doc, n) ==
    \/ \E f \in Frames : doc = MkDoc(f, << >>, << >>)
    \/ \E m \in 1..n :
          \E f \in Frames, sh \in Shapes(m), ctx \in [1..m -> ContextKinds],
             s \in 1..m, c \in Catalogue :
                doc = MkDoc(f, sh, [ctx EXCEPT ![s] = c])

-----------------------------------------------------------------------------
(* normalize_whitespace on a text, and again on its result *)

NwIdle == nw_pc = "idle" /\ nw_text = << >> /\ nw_once = << >> /\ nw_twice = << >>

NormalizeOnce ==
    /\ nw_pc = "text"
    /\ nw_once' = normalize_whitespace(nw_text)
    /\ nw_pc' = "once"
    /\ UNCHANGED <<nw_text, nw_twice>>

NormalizeTwice ==
    /\ nw_pc = "once"
    /\ nw_twice' = normalize_whitespace(nw_once)
    /\ nw_pc' = "twice"
    /\ UNCHANGED <<nw_text, nw_once>>

-----------------------------------------------------------------------------
(* extract_body_text on a parsed document *)

ExIdle == ex_pc = "idle" /\ ex_doc = MkDoc(CHOOSE f \in Frames : ~f.hasTitle /\ ~f.hasBody, << >>, << >>)
          /\ ex_title = << >> /\ ex_text = << >>

Extract ==
    /\ ex_pc = "parsed"
    /\ ex_title' = extract_body_text(ex_doc)[1]
    /\ ex_text' = extract_body_text(ex_doc)[2]
    /\ ex_pc' = "extracted"
    /\ UNCHANGED ex_doc

-----------------------------------------------------------------------------
(* The upload handler and the batch loop *)

Urls == {"http://a", "http://b", "http://c"}
RedirectTarget == "https://moved/"

\* the delay setting of the sidebar, in tenths of a second (app.py 120)
SleepChoices == {0, 2}

\* the pages served, as the parser holds them
ExamplePage ==
    [MkDoc(CHOOSE f \in Frames : f.hasTitle /\ f.hasBody /\ f.body_id = << >>,
           <<0, 0, 0>>,
           <<Plain("nav"), Plain("p"),
             [tag |-> "div", id |-> cookie \o <<"-", "b", "a", "r">>, class |-> << >>]>>)
        EXCEPT !.body_text = <<BodyToken, " ", "\t", BodyToken, "\r", "\n">>]
NoBodyPage ==
    MkDoc(CHOOSE f \in Frames : f.hasTitle /\ ~f.hasBody, <<0>>, <<Plain("script")>>)
EmptyPage ==
    [MkDoc(CHOOSE f \in Frames : ~f.hasTitle /\ f.hasBody, << >>, << >>)
        EXCEPT !.body_text = <<"\n">>]

\* what can come back for one request: a response with any status, or an
\* exception whose str() is any text, the empty one included
Responses ==
    { [kind |-> "response", code |-> "200", redirected |-> FALSE, html |-> ExamplePage],
      [kind |-> "response", code |-> "404", redirected |-> FALSE, html |-> NoBodyPage],
      [kind |-> "response", code |-> "500", redirected |-> TRUE,  html |-> EmptyPage],
      [kind |-> "response", code |-> "200", redirected |-> TRUE,  html |-> NoBodyPage] }
Exceptions ==
    { [kind |-> "exception", message |-> "Read timed out."],
      [kind |-> "exception", message |-> ""] }
NetOutcomes == Responses \cup Exceptions

\* a fetch that checks the status (raise_for_status) before it returns
fetch_url_checking_status(url, net) ==
    IF net.kind = "response" /\ net.code = "200"
    THEN [raised |-> FALSE, code |-> net.code,
          final_url |-> IF net.redirected THEN RedirectTarget ELSE url,
          html |-> net.html]
    ELSE [raised |-> TRUE,
          message |-> IF net.kind = "response" THEN "HTTP Error" ELSE net.message]

\* app.py 65-72: the status, the final URL and the text of any response are
\* returned; an exception of requests.get goes up to the caller
fetch_url(url, net) ==
    IF net.kind = "response"
    THEN [raised |-> FALSE, code |-> net.code,
          final_url |-> IF net.redirected THEN RedirectTarget ELSE url,
          html |-> net.html]
    ELSE [raised |-> TRUE, message |-> net.message]

\* a row that counts the characters of the text before it is normalised
SuccessRow_raw_length(url, r) ==
    [input_url |-> url, final_url |-> r.final_url, http_status |-> r.code,
     title |-> extract_body_text(r.html)[1],
     body_text |-> extract_body_text(r.html)[2],
     body_len_chars |->
         Len(get_text(<<"\n">>,
                      IF r.html.hasBody THEN BodyStrings(r.html, Removed(r.html))
                                        ELSE DocStrings(r.html))),
     error |-> ""]

\* app.py 148-158
SuccessRow(url, r) ==
    [input_url |-> url, final_url |-> r.final_url, http_status |-> r.code,
     title |-> extract_body_text(r.html)[1],
     body_text |-> extract_body_text(r.html)[2],
     body_len_chars |-> Len(extract_body_text(r.html)[2]),
     error |-> ""]

\* app.py 160-169
ErrorRow(url, r) ==
    [input_url |-> url, final_url |-> "", http_status |-> "",
     title |-> << >>, body_text |-> << >>, body_len_chars |-> 0,
     error |-> r.message]

\* a dedupe that keeps the last occurrence of every URL
RECURSIVE DedupeKeepLast(_)
DedupeKeepLast(list) ==
    IF list = << >> THEN << >>
    ELSE IF Head(list) \in Range(Tail(list))
         THEN DedupeKeepLast(Tail(list))
         ELSE <<Head(list)>> \o DedupeKeepLast(Tail(list))

\* dict.fromkeys(list): a key is inserted when first met, after the keys
\* already there
RECURSIVE FromKeys(_, _)
FromKeys(keys, list) ==
    IF list = << >> THEN keys
    ELSE FromKeys(IF Head(list) \in Range(keys) THEN keys ELSE Append(keys, Head(list)),
                  Tail(list))

\* app.py 129: list(dict.fromkeys(urls))
Dedupe(list) == FromKeys(<< >>, list)

BatchIdle ==
    /\ pc = "idle" /\ loaded = << >> /\ urls = << >> /\ i = 0 /\ rows = << >>
    /\ status_box = <<0, 0, "">> /\ progress = <<0, 0>>
    /\ inflight = 0 /\ fetches = << >> /\ sleeps = 0 /\ outcomes = << >>

\* app.py 126-130: a file is uploaded and read
Upload(list) ==
    /\ pc = "idle"
    /\ loaded' = list
    /\ urls' = Dedupe(list)
    /\ pc' = "loaded"
    /\ UNCHANGED <<sleep_s, i, rows, status_box, progress, inflight, fetches,
                   sleeps, outcomes>>

\* app.py 131-133: the file cannot be read; st.stop() ends the script
UploadRejected ==
    /\ pc = "idle"
    /\ pc' = "stopped"
    /\ UNCHANGED <<loaded, urls, sleep_s, i, rows, status_box, progress, inflight,
                   fetches, sleeps, outcomes>>

\* app.py 138-141: the button is pressed
Start ==
    /\ pc = "loaded"
    /\ rows' = << >>
    /\ progress' = <<0, Len(urls)>>
    /\ i' = 0
    /\ fetches' = [k \in 1..Len(urls) |-> 0]
    /\ pc' = "loop"
    /\ UNCHANGED <<loaded, urls, sleep_s, status_box, inflight, sleeps, outcomes>>

\* app.py 143-147: the next URL is taken, the status line written and the
\* request sent
BeginItem ==
    /\ pc = "loop"
    /\ i < Len(urls)
    /\ i' = i + 1
    /\ status_box' = <<i + 1, Len(urls), urls[i + 1]>>
    /\ fetches' = [fetches EXCEPT ![i + 1] = @ + 1]
    /\ inflight' = inflight + 1
    /\ pc' = "fetching"
    /\ UNCHANGED <<loaded, urls, sleep_s, rows, progress, sleeps, outcomes>>

\* a loop without the try: an exception ends the run
FetchReturns_abort_on_exception(net) ==
    /\ pc = "fetching"
    /\ inflight' = inflight - 1
    /\ outcomes' = Append(outcomes, net)
    /\ LET r == fetch_url(urls[i], net)
       IN  IF r.raised
           THEN /\ pc' = "done"
                /\ UNCHANGED <<rows, progress>>
           ELSE /\ rows' = Append(rows, SuccessRow(urls[i], r))
                /\ progress' = <<i, Len(urls)>>
                /\ pc' = IF sleep_s > 0 THEN "sleeping" ELSE "loop"
    /\ UNCHANGED <<loaded, urls, sleep_s, i, status_box, fetches, sleeps>>

\* a loop that sends the request again after an exception
FetchReturns_retry_on_exception(net) ==
    /\ pc = "fetching"
    /\ LET r == fetch_url(urls[i], net)
       IN  IF r.raised /\ fetches[i] < 2
           THEN /\ fetches' = [fetches EXCEPT ![i] = @ + 1]
                /\ UNCHANGED <<rows, progress, pc, inflight, outcomes>>
           ELSE /\ rows' = Append(rows, IF r.raised THEN ErrorRow(urls[i], r)
                                                    ELSE SuccessRow(urls[i], r))
                /\ outcomes' = Append(outcomes, net)
                /\ inflight' = inflight - 1
                /\ progress' = <<i, Len(urls)>>
                /\ pc' = IF sleep_s > 0 THEN "sleeping" ELSE "loop"
                /\ UNCHANGED fetches
    /\ UNCHANGED <<loaded, urls, sleep_s, i, status_box, sleeps>>

\* app.py 146-172: fetch_url returns or raises; the row is appended and the
\* progress bar set
FetchReturns(net) ==
    /\ pc = "fetching"
    /\ inflight' = inflight - 1
    /\ outcomes' = Append(outcomes, net)
    /\ LET r == fetch_url(urls[i], net)
       IN  rows' = Append(rows, IF r.raised THEN ErrorRow(urls[i], r)
                                            ELSE SuccessRow(urls[i], r))
    /\ progress' = <<i, Len(urls)>>
    /\ pc' = IF sleep_s > 0 THEN "sleeping" ELSE "loop"
    /\ UNCHANGED <<loaded, urls, sleep_s, i, status_box, fetches, sleeps>>

\* app.py 173: time.sleep returns
SleepDone ==
    /\ pc = "sleeping"
    /\ sleeps' = sleeps + 1
    /\ pc' = "loop"
    /\ UNCHANGED <<loaded, urls, sleep_s, i, rows, status_box, progress, inflight,
                   fetches, outcomes>>

\* app.py 175: the list is exhausted and the table built
Finish ==
    /\ pc = "loop"
    /\ i = Len(urls)
    /\ pc' = "done"
    /\ UNCHANGED <<loaded, urls, sleep_s, i, rows, status_box, progress, inflight,
                   fetches, sleeps, outcomes>>

-----------------------------------------------------------------------------
(* Specifications *)

Init ==
    /\ BatchIdle /\ sleep_s \in SleepChoices
    /\ NwIdle /\ ExIdle

Next ==
    \/ \E list \in SeqsUpTo(Urls, MaxUrls) : Upload(list) /\ UNCHANGED <<nvars, evars>>
    \/ UploadRejected /\ UNCHANGED <<nvars, evars>>
    \/ Start /\ UNCHANGED <<nvars, evars>>
    \/ BeginItem /\ UNCHANGED <<nvars, evars>>
    \/ \E net \in NetOutcomes : FetchReturns(net) /\ UNCHANGED <<nvars, evars>>
    \/ SleepDone /\ UNCHANGED <<nvars, evars>>
    \/ Finish /\ UNCHANGED <<nvars, evars>>

Spec == Init /\ [][Next]_vars

InitNormalize ==
    /\ BatchIdle /\ sleep_s = 0 /\ ExIdle
    /\ nw_pc = "text" /\ nw_text \in Texts /\ nw_once = << >> /\ nw_twice = << >>

NextNormalize ==
    \/ NormalizeOnce /\ UNCHANGED <<bvars, evars>>
    \/ NormalizeTwice /\ UNCHANGED <<bvars, evars>>

SpecNormalize == InitNormalize /\ [][NextNormalize]_vars

InitExtract ==
    /\ BatchIdle /\ sleep_s = 0 /\ NwIdle
    /\ ex_pc = "parsed" /\ IsDocUpTo(ex_doc, MaxNodes) /\ ex_title = << >> /\ ex_text = << >>

NextExtract == Extract /\ UNCHANGED <<bvars, nvars>>

SpecExtract == InitExtract /\ [][NextExtract]_vars

-----------------------------------------------------------------------------
(* Properties *)

IsFailureRow(r) ==
    /\ r.final_url = "" /\ r.http_status = ""
    /\ r.title = << >> /\ r.body_text = << >> /\ r.body_len_chars = 0

ContentEmpty(r) ==
    r.final_url = "" /\ r.http_status = "" /\ r.title = << >> /\ r.body_text = << >>

\* C1: when the batch loop has finished, rows holds exactly one row per URL
\* of the deduplicated list, and row k carries the k-th URL, whatever the
\* fetches did.
C1_Completeness ==
    pc = "done" =>
        /\ Len(rows) = Len(urls)
        /\ \A k \in 1..Len(urls) : rows[k].input_url = urls[k]

C1_Witness ==
    /\ pc = "done" /\ Len(urls) = 3 /\ Len(rows) = 3
    /\ outcomes[1].kind = "exception"
    /\ outcomes[2].kind = "response"
    /\ outcomes[3].kind = "exception"

\* C2: a fetch that fails with any exception leaves a row with a non-empty
\* error and empty content fields, the other rows are what their own fetches
\* make them, and in every row error is empty exactly when the content
\* fields are not all empty.
C2_FailureIsolation ==
    \A k \in 1..Len(rows) :
        /\ outcomes[k].kind = "exception" =>
               rows[k].error # "" /\ IsFailureRow(rows[k])
        /\ outcomes[k].kind = "response" =>
               rows[k] = SuccessRow(urls[k], fetch_url(urls[k], outcomes[k]))
        /\ (rows[k].error = "") # ContentEmpty(rows[k])

\* C3: a response with any status code is a success: its row carries the
\* code received, the URL after redirection, the extracted title and text
\* and an empty error; only a row whose fetch raised has an error.
C3_StatusIsData ==
    \A k \in 1..Len(rows) :
        /\ outcomes[k].kind = "response" =>
               /\ rows[k].http_status = outcomes[k].code
               /\ rows[k].final_url =
                      (IF outcomes[k].redirected THEN RedirectTarget ELSE urls[k])
               /\ rows[k].title = extract_body_text(outcomes[k].html)[1]
               /\ rows[k].body_text = extract_body_text(outcomes[k].html)[2]
               /\ rows[k].error = ""
        /\ rows[k].error # "" => outcomes[k].kind = "exception"

C3_Witness ==
    /\ Len(rows) >= 2
    /\ outcomes[1].kind = "response" /\ outcomes[1].code = "404"
    /\ rows[1].http_status = "404" /\ rows[1].error = ""
    /\ outcomes[2].kind = "response" /\ outcomes[2].code = "500"
    /\ rows[2].http_status = "500" /\ rows[2].final_url = RedirectTarget

\* C4: normalize_whitespace is idempotent: normalising a normalised text
\* gives the same text.
C4_Idempotent ==
    nw_pc = "twice" => nw_twice = nw_once

C4_Witness ==
    /\ nw_pc = "twice"
    /\ nw_text = <<" ", "a", "\r", "\t", "a">>
    /\ nw_once = <<"a", "\n", " ", "a">>

SevenPatterns == {cookie, consent, gdpr, newsletter, popup, modal, overlay}

\* C5: every element under body whose id or class matches, ignoring case,
\* one of the seven patterns is removed with all it contains, so none of its
\* text is in the body text; the body itself stays, whatever its attributes.
C5_JunkRemoved ==
    (ex_pc = "extracted" /\ ex_doc.hasBody) =>
        /\ \A k \in Elements(ex_doc) :
               (\/ SearchAnyIgnoreCase(SevenPatterns, ex_doc.nodes[k].id)
                \/ SearchAnyIgnoreCase(SevenPatterns, ex_doc.nodes[k].class))
               => \A j \in Subtree(ex_doc, k) : Tokens[j] \notin Range(ex_text)
        /\ BodyToken \in Range(ex_text)

TenTags == Range(NonContentTags) \cup Range(LayoutTags)

\* what the code takes for boilerplate: one of the ten tags, an id matching
\* its id selector or a class matching its class selector
IsBoilerplate(node) ==
    \/ node.tag \in TenTags
    \/ SearchAnyIgnoreCase(junk_selectors[1].pats, node.id)
    \/ SearchAnyIgnoreCase(junk_selectors[2].pats, node.class)

IsExampleDoc(doc) ==
    /\ doc.hasBody /\ Len(doc.nodes) = 3
    /\ \A k \in 1..3 : doc.nodes[k].parent = 0
    /\ doc.nodes[1].tag = "nav"
    /\ doc.nodes[2].tag = "p" /\ doc.nodes[2].id = << >> /\ doc.nodes[2].class = << >>
    /\ doc.nodes[3].tag = "div" /\ doc.nodes[3].id = cookie \o <<"-", "b", "a", "n", "n", "e", "r">>

\* C6: with a body, the body text holds no text of any script, style,
\* noscript, svg, canvas, iframe, header, footer, nav or aside element or of
\* anything inside one, and it holds the text of every element that lies in
\* no removed subtree; <nav>, <p>, <div id="cookie-banner"> side by side
\* yield the text of the <p> and of neither of the others.
C6_BoilerplateRemoved ==
    (ex_pc = "extracted" /\ ex_doc.hasBody) =>
        /\ \A k \in Elements(ex_doc) :
               ex_doc.nodes[k].tag \in TenTags
               => \A j \in Subtree(ex_doc, k) : Tokens[j] \notin Range(ex_text)
        /\ \A j \in Elements(ex_doc) :
               (\A k \in Elements(ex_doc) :
                    InSubtree(ex_doc, j, k) => ~IsBoilerplate(ex_doc.nodes[k]))
               => Tokens[j] \in Range(ex_text)
        /\ IsExampleDoc(ex_doc) =>
               /\ Tokens[2] \in Range(ex_text)
               /\ Tokens[1] \notin Range(ex_text)
               /\ Tokens[3] \notin Range(ex_text)

C6_Witness ==
    /\ ex_pc = "extracted"
    /\ IsExampleDoc(ex_doc)
    /\ ex_text = <<BodyToken, "\n", Tokens[2]>>

\* the strings a document without body holds, stripped: the title's and
\* every element's
AllTokens(doc) ==
    (IF doc.hasTitle /\ Strip(doc.title) # << >> THEN <<TitleToken>> ELSE << >>)
    \o [k \in 1..Len(doc.nodes) |-> Tokens[k]]

\* C7: without a body the extractor returns the title and the text of the
\* whole document, every string on a line of its own, with nothing removed.
C7_Fallback ==
    (ex_pc = "extracted" /\ ~ex_doc.hasBody) =>
        LET toks == AllTokens(ex_doc)
        IN  /\ Len(ex_text) = (IF toks = << >> THEN 0 ELSE 2 * Len(toks) - 1)
            /\ \A m \in 1..Len(toks) : ex_text[2 * m - 1] = toks[m]
            /\ \A m \in 1..(Len(toks) - 1) : ex_text[2 * m] = "\n"
            /\ ex_title = (IF ex_doc.hasTitle THEN <<TitleToken>> ELSE << >>)

C7_Witness ==
    /\ ex_pc = "extracted" /\ ~ex_doc.hasBody /\ ex_doc.hasTitle
    /\ Len(ex_doc.nodes) = 2
    /\ ex_doc.nodes[1].tag = "nav" /\ ex_doc.nodes[2].tag = "script"
    /\ ex_text = <<TitleToken, "\n", Tokens[1], "\n", Tokens[2]>>

RowsKept ==
    \A k \in 1..Len(rows) : Len(rows') >= k /\ rows'[k] = rows[k]

RowLengthsRight ==
    \A k \in 1..Len(rows) :
        /\ rows[k].body_len_chars = Len(rows[k].body_text)
        /\ outcomes[k].kind = "exception" =>
               rows[k].body_len_chars = 0 /\ rows[k].body_text = << >>

\* C8: in every row body_len_chars is the number of characters of body_text
\* (0 and the empty text in a failed row), and a row once appended is never
\* changed.
C8_LengthConsistent ==
    [](RowLengthsRight) /\ [][RowsKept]_vars

C8_Witness ==
    /\ Len(rows) = 3
    /\ rows[1].error = "" /\ rows[1].body_len_chars = 5
    /\ outcomes[2].kind = "exception" /\ rows[2].body_len_chars = 0
    /\ rows[3].error = "" /\ rows[3].body_len_chars = 0

FirstIndex(list, x) == CHOOSE k \in 1..Len(list) : list[k] = x /\ \A j \in 1..(k - 1) : list[j] # x

\* C9: the deduplicated list holds every URL of the loaded list once, in the
\* order of the first occurrences ([a, b, a] gives [a, b]), and
\* deduplicating it again changes nothing.
C9_DedupeKeepsFirst ==
    pc \notin {"idle", "stopped"} =>
        /\ \A p, q \in 1..Len(urls) : p # q => urls[p] # urls[q]
        /\ Range(urls) = Range(loaded)
        /\ \A p, q \in 1..Len(urls) :
               p < q => FirstIndex(loaded, urls[p]) < FirstIndex(loaded, urls[q])
        /\ loaded = <<"http://a", "http://b", "http://a">> => urls = <<"http://a", "http://b">>
        /\ Dedupe(urls) = urls

C9_Witness ==
    /\ pc = "loaded"
    /\ loaded = <<"http://a", "http://b", "http://a">>
    /\ urls = <<"http://a", "http://b">>

\* C10: the run is sequential and retries nothing: at most one request is in
\* flight, the URLs up to the loop index have been fetched once each and no
\* other, and while the request for URL i is in flight the rows of the i-1
\* URLs before it are appended, progress (i-1, N) is reported and, with a
\* delay set, i-1 sleeps have returned; at the end every URL was fetched once.
C10_Sequential ==
    /\ inflight \in {0, 1}
    /\ inflight = 1 <=> pc = "fetching"
    /\ \A k \in 1..Len(fetches) : fetches[k] = (IF k <= i THEN 1 ELSE 0)
    /\ pc = "fetching" =>
           /\ Len(rows) = i - 1
           /\ progress = <<i - 1, Len(urls)>>
           /\ sleeps = (IF sleep_s > 0 THEN i - 1 ELSE 0)
    /\ pc = "done" =>
           /\ Len(fetches) = Len(urls)
           /\ \A k \in 1..Len(urls) : fetches[k] = 1

C10_Witness ==
    /\ pc = "fetching" /\ i = 3 /\ sleep_s > 0 /\ sleeps = 2
    /\ outcomes[1].kind = "exception" /\ outcomes[2].kind = "response"
    /\ fetches = <<1, 1, 1>>

=============================================================================
